---- MODULE Spec2Model ----
(***************************************************************************)
(* Row-level authorization model of the permit system.                     *)
(*                                                                         *)
(* The store is the five tables of the migration weathered_gate.sql; each  *)
(* action is one SQL statement issued by a caller (auth.uid()) and guarded *)
(* by the row-level policies, CHECK constraints and foreign keys of that   *)
(* migration.  The close and reopen transitions are the service-layer      *)
(* handlers behind PATCH /permits/:id/close and /permits/:id/reopen; only  *)
(* their callers (usePermits, permitsAPI) are in the source tree.          *)
(*                                                                         *)
(* Policies are modelled by the predicate they declare.  A statement whose *)
(* USING clause filters the row affects no row ("no_rows"); a row that     *)
(* fails a WITH CHECK clause raises ("rls_error"); a CHECK constraint      *)
(* raises "check_violation"; a foreign key raises "fk_violation".          *)
(* Requests are served one at a time: a statement runs as one transaction  *)
(* and leaves its outcome in response until the caller has received it.    *)
(*                                                                         *)
(* The UPDATE policy on permits has no WITH CHECK clause, so its USING     *)
(* expression (which ends in closed_at IS NULL) is also applied to the row *)
(* an UPDATE writes: no statement under that policy can stamp closed_at or *)
(* touch a closed row (UpdatePermit).  Close and reopen are therefore      *)
(* modelled as transitions of their own, guarded by the capability vectors *)
(* of role_permissions.  The users.permissions override column and the     *)
(* unique keys username and email are left out.                            *)
(*                                                                         *)
(* HookSpec is the client's usePermits hook: its local permits list, the   *)
(* number generatePermitNumber derives from that list, and the             *)
(* permit_number column (UNIQUE) of the rows the hook's requests insert    *)
(* and delete.  Spec leaves the hook's variables alone and HookSpec leaves *)
(* the tables of Spec alone, so permit rows of HookSpec are kept as their  *)
(* id and permit_number only.                                              *)
(***************************************************************************)
EXTENDS Integers, FiniteSets, Sequences, TLC

\* ---------------------------------------------------------------- bounds
NumUsers == 2       \* user ids are 1..NumUsers
NumPermits == 1     \* permit ids are 1..NumPermits
MaxClock == 2       \* timestamps (now()) range over 1..MaxClock
MaxLogs == 1        \* activity_logs holds at most MaxLogs rows
MaxAdds == 4        \* the hook's requests insert at most MaxAdds permits rows
NumYears == 2       \* the calendar years the hook's session spans

UserIds == 1..NumUsers
PermitIds == 1..NumPermits

\* SQL NULL of the nullable columns closed_by (uuid) and closed_at (timestamptz)
NULL == 0
\* SQL NULL of the nullable column closed_by_name (text)
NullText == "NULL"

\* ------------------------------------------------------- reference data
Roles == {"admin", "manager", "security_officer", "observer"}

\* the rows of table regions (two of the nineteen seeded codes)
Regions == {"headquarters", "riyadh"}
\* a code that is not a row of regions
BadRegion == "atlantis"
RegionCodes == Regions \cup {BadRegion}

\* the seed with canReopenAnyPermit false for admin
SeedPermissions_AdminNoReopenAny ==
  [r \in Roles |->
     [canClosePermits    |-> r \in {"admin", "manager", "security_officer"},
      canReopenPermits   |-> r \in {"admin", "manager", "security_officer"},
      canReopenAnyPermit |-> r \in {"manager"}]]

\* the seed with canClosePermits also granted to observer
SeedPermissions_ObserverCloses ==
  [r \in Roles |->
     [canClosePermits    |-> TRUE,
      canReopenPermits   |-> r \in {"admin", "manager", "security_officer"},
      canReopenAnyPermit |-> r \in {"admin", "manager"}]]

\* the seeded capability vectors, restricted to the capabilities the
\* lifecycle transitions read
SeedPermissions ==
  [r \in Roles |->
     [canClosePermits    |-> r \in {"admin", "manager", "security_officer"},
      canReopenPermits   |-> r \in {"admin", "manager", "security_officer"},
      canReopenAnyPermit |-> r \in {"admin", "manager"}]]

\* the seeded admin account
SeedUsers == 1 :> [role |-> "admin", region |-> Regions]

VARIABLES users, permits, activity_logs, role_permissions, response

\* the usePermits hook: local_permits is its permits state (newest first),
\* permit_number the permit_number column of the rows it has inserted (by row
\* id), issued the number of row ids handed out, year the calendar year of
\* new Date(), hook_error what the last call of the hook threw
VARIABLES local_permits, permit_number, issued, year, hook_error

hookVars == <<local_permits, permit_number, issued, year, hook_error>>

tableVars == <<users, permits, activity_logs, role_permissions, response>>

vars == <<users, permits, activity_logs, role_permissions, response,
          local_permits, permit_number, issued, year, hook_error>>

\* the first calendar year of the session
FirstYear == 2025
Years == FirstYear..(FirstYear + NumYears - 1)
\* the width the running count is padded to
PadWidth == 6

\* no response in flight; a request fills in its operation and arguments
Idle ==
  [op |-> "idle", caller |-> NULL, target |-> NULL, status |-> "ok",
   region |-> "", regions |-> {}, role |-> "", can_reopen |-> FALSE,
   closed_at |-> NULL, user_id |-> NULL, rows |-> {}]

\* the values now() takes
Times == 1..MaxClock

\* ------------------------------------------------------------- helpers
\* the caller's row as it was seeded, whatever the table holds now
AuthUsers_Seeded(c) == IF c \in DOMAIN SeedUsers THEN {SeedUsers[c]} ELSE {}

\* SELECT ... FROM users WHERE id = auth.uid(): the caller's row, if any
AuthUsers(c) == IF c \in DOMAIN users THEN {users[c]} ELSE {}

\* validate_region_code(region_code)
validate_region_code(code) == \E r \in Regions : r = code

\* the loop returning true on the first code that passes
validate_user_regions_AnyValid(regions) ==
  \E code \in regions : validate_region_code(code)

\* validate_user_regions(regions): FOREACH over the array, false on the
\* first code that fails validate_region_code, true when the loop ends
validate_user_regions(regions) ==
  ~ \E code \in regions : ~ validate_region_code(code)

\* first_name/last_name of a user row, fixed when the row is inserted
NameOf(id) == "user" \o ToString(id)

\* DELETE FROM t WHERE id = k
DropRow(t, k) == [i \in DOMAIN t \ {k} |-> t[i]]

\* ------------------------------------------------------------ policies
\* "Admins can create users" (INSERT WITH CHECK)
UsersInsertCheck(c) == \E u \in AuthUsers(c) : u.role = "admin"

\* "Admins can update users" (UPDATE USING)
UsersUpdateUsing(c) == \E u \in AuthUsers(c) : u.role = "admin"

\* the DELETE policy with the self clause inverted (= for !=)
UsersDeleteUsing_SelfOnly(c, id) ==
  /\ \E u \in AuthUsers(c) : u.role = "admin"
  /\ id = c

\* the DELETE policy without the self clause
UsersDeleteUsing_SelfAllowed(c, id) ==
  \E u \in AuthUsers(c) : u.role = "admin"

\* "Admins can delete users" (DELETE USING)
UsersDeleteUsing(c, id) ==
  /\ \E u \in AuthUsers(c) : u.role = "admin"
  /\ id # c

\* the SELECT policy with manager left out of the role list
PermitsSelectUsing_AdminOnly(c, row) ==
  \E u \in AuthUsers(c) :
     \/ row.region \in u.region
     \/ u.role \in {"admin"}

\* "Users can view permits in their regions" (SELECT USING)
PermitsSelectUsing(c, row) ==
  \E u \in AuthUsers(c) :
     \/ row.region \in u.region
     \/ u.role \in {"admin", "manager"}

\* the INSERT policy without the region clause
PermitsInsertCheck_NoRegion(c, row) ==
  \E u \in AuthUsers(c) : u.role \in {"admin", "manager"}

\* "Managers and admins can create permits" (INSERT WITH CHECK)
PermitsInsertCheck(c, row) ==
  \E u \in AuthUsers(c) :
     /\ u.role \in {"admin", "manager"}
     /\ \/ row.region \in u.region
        \/ u.role = "admin"

\* the UPDATE policy without the closed_at clause
PermitsUpdateUsing_NoClosedCheck(c, row) ==
  \E u \in AuthUsers(c) :
     /\ u.role \in {"admin", "manager"}
     /\ \/ row.region \in u.region
        \/ u.role = "admin"

\* "Managers and admins can update permits" (UPDATE USING; with no WITH
\* CHECK clause the same expression is checked on the new row)
PermitsUpdateUsing(c, row) ==
  /\ \E u \in AuthUsers(c) :
        /\ u.role \in {"admin", "manager"}
        /\ \/ row.region \in u.region
           \/ u.role = "admin"
  /\ row.closed_at = NULL

\* "Admins can delete permits" (DELETE USING)
PermitsDeleteUsing(c) == \E u \in AuthUsers(c) : u.role = "admin"

\* the INSERT policy checking only that the caller is a user
ActivityLogsInsertCheck_AnyUser(c, row) == AuthUsers(c) # {}

\* "All authenticated users can create activity logs" (INSERT WITH CHECK)
ActivityLogsInsertCheck(c, row) == row.user_id = c

\* the FOR ALL policy with the SELECT policy's condition (any user)
RolePermissionsUsing_AnyUser(c) == AuthUsers(c) # {}

\* "Admins can manage role permissions" (FOR ALL USING)
RolePermissionsUsing(c) == \E u \in AuthUsers(c) : u.role = "admin"

\* the references to users(id) without the one of permits.closed_by
UserReferenced_NoClosedBy(id) ==
  \/ \E p \in DOMAIN permits : permits[p].created_by = id
  \/ \E i \in 1..Len(activity_logs) : activity_logs[i].user_id = id

\* rows of other tables that reference users(id)
UserReferenced(id) ==
  \/ \E p \in DOMAIN permits :
        permits[p].created_by = id \/ permits[p].closed_by = id
  \/ \E i \in 1..Len(activity_logs) : activity_logs[i].user_id = id

\* -------------------------------------------------------------- state
Init ==
  /\ users = SeedUsers
  /\ permits = << >>
  /\ activity_logs = << >>
  /\ role_permissions = SeedPermissions
  /\ response = Idle
  /\ local_permits = << >>
  /\ permit_number = << >>
  /\ issued = 0
  /\ year = FirstYear
  /\ hook_error = "none"

\* the caller receives the response of its request
Deliver ==
  /\ response # Idle
  /\ response' = Idle
  /\ UNCHANGED <<users, permits, activity_logs, role_permissions>>
  /\ UNCHANGED hookVars

\* the region arrays a users row is written with
UserRegionInputs ==
  {{"headquarters"}, Regions, {"headquarters", BadRegion}}

\* ---------------------------------------------------------- users table
\* INSERT INTO users (..., region, role) by caller c
InsertUser(c, role, region) ==
  /\ response = Idle
  /\ UNCHANGED <<permits, activity_logs, role_permissions>>
  /\ UNCHANGED hookVars
  /\ LET req == [Idle EXCEPT !.op = "insert_user", !.caller = c,
                             !.role = role, !.regions = region]
     IN  IF ~ UsersInsertCheck(c)
         THEN /\ response' = [req EXCEPT !.status = "rls_error"]
              /\ UNCHANGED users
         ELSE IF ~ validate_user_regions(region)
         THEN /\ response' = [req EXCEPT !.status = "check_violation"]
              /\ UNCHANGED users
         ELSE \E id \in UserIds \ DOMAIN users :
                /\ users' = users @@ (id :> [role |-> role, region |-> region])
                /\ response' = [req EXCEPT !.status = "ok", !.target = id]

\* UPDATE users SET role = .. WHERE id = .. by caller c
UpdateUserRole(c, id, role) ==
  /\ response = Idle
  /\ UNCHANGED <<permits, activity_logs, role_permissions>>
  /\ UNCHANGED hookVars
  /\ LET req == [Idle EXCEPT !.op = "update_user_role", !.caller = c,
                             !.target = id, !.role = role]
     IN  IF id \notin DOMAIN users \/ ~ UsersUpdateUsing(c)
         THEN /\ response' = [req EXCEPT !.status = "no_rows"]
              /\ UNCHANGED users
         ELSE /\ users' = [users EXCEPT ![id].role = role]
              /\ response' = [req EXCEPT !.status = "ok"]

\* UPDATE users SET region = .. WHERE id = .. by caller c
UpdateUserRegion(c, id, region) ==
  /\ response = Idle
  /\ UNCHANGED <<permits, activity_logs, role_permissions>>
  /\ UNCHANGED hookVars
  /\ LET req == [Idle EXCEPT !.op = "update_user_region", !.caller = c,
                             !.target = id, !.regions = region]
     IN  IF id \notin DOMAIN users \/ ~ UsersUpdateUsing(c)
         THEN /\ response' = [req EXCEPT !.status = "no_rows"]
              /\ UNCHANGED users
         ELSE IF ~ validate_user_regions(region)
         THEN /\ response' = [req EXCEPT !.status = "check_violation"]
              /\ UNCHANGED users
         ELSE /\ users' = [users EXCEPT ![id].region = region]
              /\ response' = [req EXCEPT !.status = "ok"]

\* DELETE FROM users WHERE id = .. by caller c
DeleteUser(c, id) ==
  /\ response = Idle
  /\ UNCHANGED <<permits, activity_logs, role_permissions>>
  /\ UNCHANGED hookVars
  /\ LET req == [Idle EXCEPT !.op = "delete_user", !.caller = c, !.target = id]
     IN  IF id \notin DOMAIN users \/ ~ UsersDeleteUsing(c, id)
         THEN /\ response' = [req EXCEPT !.status = "no_rows"]
              /\ UNCHANGED users
         ELSE IF UserReferenced(id)
         THEN /\ response' = [req EXCEPT !.status = "fk_violation"]
              /\ UNCHANGED users
         ELSE /\ users' = DropRow(users, id)
              /\ response' = [req EXCEPT !.status = "ok"]

\* -------------------------------------------------------- permits table
\* the permits a SELECT by caller c returns
VisiblePermits(c) ==
  {p \in DOMAIN permits : PermitsSelectUsing(c, permits[p])}

\* SELECT * FROM permits by caller c
SelectPermits(c) ==
  /\ response = Idle
  /\ response' = [Idle EXCEPT !.op = "select_permits", !.caller = c,
                            !.rows = VisiblePermits(c)]
  /\ UNCHANGED <<users, permits, activity_logs, role_permissions>>
  /\ UNCHANGED hookVars

\* a permits row as INSERT builds it: closed_by, closed_at, closed_by_name
\* default to NULL and can_reopen to true
NewPermit(c, region) ==
  [region |-> region, created_by |-> c, can_reopen |-> TRUE,
   closed_by |-> NULL, closed_at |-> NULL, closed_by_name |-> NullText]

\* INSERT INTO permits (..., region, created_by) by caller c
InsertPermit(c, region) ==
  /\ response = Idle
  /\ UNCHANGED <<users, activity_logs, role_permissions>>
  /\ UNCHANGED hookVars
  /\ LET req == [Idle EXCEPT !.op = "insert_permit", !.caller = c,
                             !.region = region]
         row == NewPermit(c, region)
     IN  IF ~ PermitsInsertCheck(c, row)
         THEN /\ response' = [req EXCEPT !.status = "rls_error"]
              /\ UNCHANGED permits
         ELSE IF ~ validate_region_code(region)
         THEN /\ response' = [req EXCEPT !.status = "check_violation"]
              /\ UNCHANGED permits
         ELSE \E p \in PermitIds \ DOMAIN permits :
                /\ permits' = permits @@ (p :> row)
                /\ response' = [req EXCEPT !.status = "ok", !.target = p]

\* the row an UPDATE writes: region, can_reopen and closed_at from the
\* payload; a payload that stamps closed_at also names the caller as closer
UpdatedPermit(c, old, region, can_reopen, closed_at) ==
  [old EXCEPT !.region = region, !.can_reopen = can_reopen,
              !.closed_by = IF closed_at # NULL THEN c ELSE NULL,
              !.closed_at = closed_at,
              !.closed_by_name = IF closed_at # NULL THEN NameOf(c) ELSE NullText]

\* the closed_at values an UPDATE payload carries
ClosedAtInputs == {NULL, MaxClock}

\* UPDATE permits SET ... WHERE id = p by caller c
UpdatePermit(c, p, region, can_reopen, closed_at) ==
  /\ response = Idle
  /\ UNCHANGED <<users, activity_logs, role_permissions>>
  /\ UNCHANGED hookVars
  /\ LET req == [Idle EXCEPT !.op = "update_permit", !.caller = c, !.target = p,
                             !.region = region, !.can_reopen = can_reopen,
                             !.closed_at = closed_at]
     IN  IF p \notin DOMAIN permits \/ ~ PermitsUpdateUsing(c, permits[p])
         THEN /\ response' = [req EXCEPT !.status = "no_rows"]
              /\ UNCHANGED permits
         ELSE LET row == UpdatedPermit(c, permits[p], region, can_reopen, closed_at)
              IN  IF ~ PermitsUpdateUsing(c, row)
                  THEN /\ response' = [req EXCEPT !.status = "rls_error"]
                       /\ UNCHANGED permits
                  ELSE IF ~ validate_region_code(region)
                  THEN /\ response' = [req EXCEPT !.status = "check_violation"]
                       /\ UNCHANGED permits
                  ELSE /\ permits' = [permits EXCEPT ![p] = row]
                       /\ response' = [req EXCEPT !.status = "ok"]

\* DELETE FROM permits WHERE id = p by caller c
DeletePermit(c, p) ==
  /\ response = Idle
  /\ UNCHANGED <<users, activity_logs, role_permissions>>
  /\ UNCHANGED hookVars
  /\ LET req == [Idle EXCEPT !.op = "delete_permit", !.caller = c, !.target = p]
     IN  IF p \notin DOMAIN permits \/ ~ PermitsDeleteUsing(c)
         THEN /\ response' = [req EXCEPT !.status = "no_rows"]
              /\ UNCHANGED permits
         ELSE /\ permits' = DropRow(permits, p)
              /\ response' = [req EXCEPT !.status = "ok"]

\* ------------------------------------------------- lifecycle transitions
\* the capability cap in the vector of the caller's role
HasCapability(c, cap) == \E u \in AuthUsers(c) : role_permissions[u.role][cap]

\* close of an open permit requires the close capability
CanClose(c, p) == HasCapability(c, "canClosePermits")

\* the reopen guard as the row-level rule alone would give it: capability
\* and flag, whoever closed the permit
CanReopen_AnyCloser(c, p) ==
  /\ HasCapability(c, "canReopenPermits")
  /\ permits[p].can_reopen

\* reopen of a closed permit requires the reopen capability, the permit's
\* can_reopen flag, and reopen-any or being the user who closed it
CanReopen(c, p) ==
  /\ HasCapability(c, "canReopenPermits")
  /\ permits[p].can_reopen
  /\ \/ HasCapability(c, "canReopenAnyPermit")
     \/ permits[p].closed_by = c

\* PATCH /permits/:id/close by caller c, served at time t
ClosePermit(c, p, t) ==
  /\ response = Idle
  /\ UNCHANGED <<users, activity_logs, role_permissions>>
  /\ UNCHANGED hookVars
  /\ LET req == [Idle EXCEPT !.op = "close_permit", !.caller = c, !.target = p,
                             !.closed_at = t]
     IN  IF p \notin DOMAIN permits
         THEN /\ response' = [req EXCEPT !.status = "not_found"]
              /\ UNCHANGED permits
         ELSE IF ~ CanClose(c, p)
         THEN /\ response' = [req EXCEPT !.status = "forbidden"]
              /\ UNCHANGED permits
         ELSE IF permits[p].closed_at # NULL
         THEN /\ response' = [req EXCEPT !.status = "constraint_error"]
              /\ UNCHANGED permits
         ELSE /\ permits' = [permits EXCEPT ![p].closed_by = c,
                                            ![p].closed_at = t,
                                            ![p].closed_by_name = NameOf(c)]
              /\ response' = [req EXCEPT !.status = "ok"]

\* PATCH /permits/:id/reopen by caller c
ReopenPermit(c, p) ==
  /\ response = Idle
  /\ UNCHANGED <<users, activity_logs, role_permissions>>
  /\ UNCHANGED hookVars
  /\ LET req == [Idle EXCEPT !.op = "reopen_permit", !.caller = c, !.target = p]
     IN  IF p \notin DOMAIN permits
         THEN /\ response' = [req EXCEPT !.status = "not_found"]
              /\ UNCHANGED permits
         ELSE IF permits[p].closed_at = NULL \/ ~ CanReopen(c, p)
         THEN /\ response' = [req EXCEPT !.status = "constraint_error"]
              /\ UNCHANGED permits
         ELSE /\ permits' = [permits EXCEPT ![p].closed_by = NULL,
                                            ![p].closed_at = NULL,
                                            ![p].closed_by_name = NullText]
              /\ response' = [req EXCEPT !.status = "ok"]

\* --------------------------------------------------- activity_logs table
\* INSERT INTO activity_logs (user_id, ...) by caller c
InsertActivityLog(c, user_id) ==
  /\ response = Idle
  /\ UNCHANGED <<users, permits, role_permissions>>
  /\ UNCHANGED hookVars
  /\ LET req == [Idle EXCEPT !.op = "insert_log", !.caller = c,
                             !.user_id = user_id]
         row == [user_id |-> user_id]
     IN  IF ~ ActivityLogsInsertCheck(c, row)
         THEN /\ response' = [req EXCEPT !.status = "rls_error"]
              /\ UNCHANGED activity_logs
         ELSE IF user_id \notin DOMAIN users
         THEN /\ response' = [req EXCEPT !.status = "fk_violation"]
              /\ UNCHANGED activity_logs
         ELSE /\ Len(activity_logs) < MaxLogs
              /\ activity_logs' = Append(activity_logs, row)
              /\ response' = [req EXCEPT !.status = "ok"]

\* ------------------------------------------------ role_permissions table
\* the capability vectors a role_permissions row is rewritten with
PermissionInputs ==
  {SeedPermissions["security_officer"], SeedPermissions["observer"]}
\* the role_permissions rows that are rewritten
PermissionRoles == {"security_officer"}

\* UPDATE role_permissions SET permissions = .. WHERE role = .. by caller c
UpdateRolePermissions(c, role, perms) ==
  /\ response = Idle
  /\ UNCHANGED <<users, permits, activity_logs>>
  /\ UNCHANGED hookVars
  /\ LET req == [Idle EXCEPT !.op = "update_role_permissions", !.caller = c,
                             !.role = role]
     IN  IF ~ RolePermissionsUsing(c)
         THEN /\ response' = [req EXCEPT !.status = "no_rows"]
              /\ UNCHANGED role_permissions
         ELSE /\ role_permissions' = [role_permissions EXCEPT ![role] = perms]
              /\ response' = [req EXCEPT !.status = "ok"]

\* ---------------------------------------------------------------- system
Next ==
  \/ Deliver
  \/ \E c \in UserIds, role \in Roles, region \in UserRegionInputs :
        InsertUser(c, role, region)
  \/ \E c \in UserIds, id \in UserIds, role \in Roles : UpdateUserRole(c, id, role)
  \/ \E c \in UserIds, id \in UserIds, region \in UserRegionInputs :
        UpdateUserRegion(c, id, region)
  \/ \E c \in UserIds, id \in UserIds : DeleteUser(c, id)
  \/ \E c \in UserIds : SelectPermits(c)
  \/ \E c \in UserIds, region \in RegionCodes : InsertPermit(c, region)
  \/ \E c \in UserIds, p \in PermitIds, region \in RegionCodes,
        can_reopen \in BOOLEAN, closed_at \in ClosedAtInputs :
        UpdatePermit(c, p, region, can_reopen, closed_at)
  \/ \E c \in UserIds, p \in PermitIds : DeletePermit(c, p)
  \/ \E c \in UserIds, p \in PermitIds, t \in Times : ClosePermit(c, p, t)
  \/ \E c \in UserIds, p \in PermitIds : ReopenPermit(c, p)
  \/ \E c \in UserIds, user_id \in UserIds : InsertActivityLog(c, user_id)
  \/ \E c \in UserIds, role \in PermissionRoles, perms \in PermissionInputs :
        UpdateRolePermissions(c, role, perms)

Spec == Init /\ [][Next]_vars

\* ------------------------------------------------------ usePermits hook
\* String.prototype.padStart with a one-character fill
padStart(s, n, fill) ==
  LET RECURSIVE pad(_)
      pad(t) == IF Len(t) >= n THEN t ELSE pad(fill \o t)
  IN  pad(s)

\* MHV, the year, and the length of the local list plus one, padded
generatePermitNumber ==
  LET count == Len(local_permits) + 1
  IN  "MHV" \o ToString(year) \o padStart(ToString(count), PadWidth, "0")

\* the row ids the hook's requests can come to know
HookPermitIds == 1..MaxAdds

\* permit_number text UNIQUE: no row of the table carries the number yet
PermitNumberUnique(number) ==
  \A q \in DOMAIN permit_number : permit_number[q] # number

\* addPermit by caller c with a permit_number taken from generatePermitNumber:
\* POST /permits inserts the row or the call throws; on success the new
\* permit is put in front of the local list
addPermit(c, region) ==
  /\ issued < MaxAdds
  /\ UNCHANGED tableVars
  /\ UNCHANGED year
  /\ LET number == generatePermitNumber
         id == issued + 1
     IN  IF ~ PermitsInsertCheck(c, NewPermit(c, region))
         THEN /\ hook_error' = "rls_error"
              /\ UNCHANGED <<local_permits, permit_number, issued>>
         ELSE IF ~ PermitNumberUnique(number)
         THEN /\ hook_error' = "unique_violation"
              /\ UNCHANGED <<local_permits, permit_number, issued>>
         ELSE /\ permit_number' = permit_number @@ (id :> number)
              /\ issued' = id
              /\ local_permits' =
                   <<[id |-> id, permit_number |-> number]>> \o local_permits
              /\ hook_error' = "none"

\* prev.filter(permit => permit.id !== permitId)
FilterOut(list, permitId) == SelectSeq(list, LAMBDA permit : permit.id # permitId)

\* deletePermit of a listed permit by caller c: DELETE /permits/:id removes
\* the row or the call throws; on success the permit leaves the local list
deletePermit(c, permitId) ==
  /\ \E i \in 1..Len(local_permits) : local_permits[i].id = permitId
  /\ UNCHANGED tableVars
  /\ UNCHANGED <<year, issued>>
  /\ IF ~ PermitsDeleteUsing(c)
     THEN /\ hook_error' = "rls_error"
          /\ UNCHANGED <<local_permits, permit_number>>
     ELSE /\ permit_number' = DropRow(permit_number, permitId)
          /\ local_permits' = FilterOut(local_permits, permitId)
          /\ hook_error' = "none"

\* new Date().getFullYear() moves on to the next year
NewYear ==
  /\ year + 1 \in Years
  /\ year' = year + 1
  /\ UNCHANGED tableVars
  /\ UNCHANGED <<local_permits, permit_number, issued, hook_error>>

HookNext ==
  \/ \E c \in UserIds, region \in Regions : addPermit(c, region)
  \/ \E c \in UserIds, permitId \in HookPermitIds : deletePermit(c, permitId)
  \/ NewYear

HookSpec == Init /\ [][HookNext]_vars

\* ---------------------------------------------------------------------
\* the statuses with which row-level security turns a statement down
Denied == {"rls_error", "no_rows"}

\* C1: the permits a SELECT returns to an existing user are exactly the
\* permits of the user's regions for a security_officer or observer, and
\* exactly all permits for an admin or manager.
C1_PermitRead ==
  (response.op = "select_permits" /\ response.caller \in DOMAIN users) =>
     LET u == users[response.caller]
     IN  response.rows =
           IF u.role \in {"admin", "manager"}
           THEN DOMAIN permits
           ELSE {p \in DOMAIN permits : permits[p].region \in u.region}

\* a security_officer or observer has read while a permit outside its regions
\* exists: that permit is withheld
C1_Witness ==
  /\ response.op = "select_permits"
  /\ response.caller \in DOMAIN users
  /\ users[response.caller].role \in {"security_officer", "observer"}
  /\ \E p \in DOMAIN permits :
        permits[p].region \notin users[response.caller].region
  /\ response.rows = {}

\* a manager has read a permit outside its regions
C1_WitnessManager ==
  /\ response.op = "select_permits"
  /\ response.caller \in DOMAIN users
  /\ users[response.caller].role = "manager"
  /\ \E p \in response.rows :
        permits[p].region \notin users[response.caller].region

\* C2: a plain UPDATE of a permit whose closed_at is not NULL is turned down
\* for every caller and leaves the permits table as it was.
C2_ClosedImmutable ==
  [][(/\ response'.op = "update_permit"
      /\ response'.target \in DOMAIN permits
      /\ permits[response'.target].closed_at # NULL)
     => (response'.status \in Denied /\ permits' = permits)]_vars

\* an admin's UPDATE of a closed permit has been turned down
C2_Witness ==
  /\ response.op = "update_permit"
  /\ response.status = "no_rows"
  /\ response.caller \in DOMAIN users
  /\ users[response.caller].role = "admin"
  /\ response.target \in DOMAIN permits
  /\ permits[response.target].closed_at # NULL

\* the capability cap of caller c's role in table t, for a caller with a row
RoleGrants(t, c, cap) == c \in DOMAIN users /\ t[users[c].role][cap]

\* C3 as stated: reopen of a closed permit succeeds iff can_reopen is true
\* and the caller's role has reopen-any or the caller is closed_by.
C3_Original ==
  [][(/\ response'.op = "reopen_permit"
      /\ response'.target \in DOMAIN permits
      /\ permits[response'.target].closed_at # NULL)
     => LET c == response'.caller
            row == permits[response'.target]
        IN  (response'.status = "ok") <=>
              (/\ row.can_reopen
               /\ \/ RoleGrants(role_permissions, c, "canReopenAnyPermit")
                  \/ row.closed_by = c)]_vars

\* C3 amended: reopen of a closed permit succeeds iff the caller's role has
\* the reopen capability, can_reopen is true, and the caller's role has
\* reopen-any or the caller is closed_by; otherwise it is turned down and the
\* permit stays closed with closed_by and closed_at as they were.
C3_Reopen ==
  [][(/\ response'.op = "reopen_permit"
      /\ response'.target \in DOMAIN permits
      /\ permits[response'.target].closed_at # NULL)
     => LET c == response'.caller
            row == permits[response'.target]
        IN  /\ (response'.status = "ok") <=>
                 (/\ RoleGrants(role_permissions, c, "canReopenPermits")
                  /\ row.can_reopen
                  /\ \/ RoleGrants(role_permissions, c, "canReopenAnyPermit")
                     \/ row.closed_by = c)
            /\ response'.status = "ok" =>
                 /\ permits'[response'.target].closed_at = NULL
                 /\ permits'[response'.target].closed_by = NULL
            /\ response'.status # "ok" =>
                 /\ response'.status = "constraint_error"
                 /\ permits' = permits]_vars

\* a caller whose role has the reopen capability but not reopen-any, and who
\* did not close the permit, has been turned down on a permit with can_reopen
C3_Witness ==
  /\ response.op = "reopen_permit"
  /\ response.status = "constraint_error"
  /\ response.target \in DOMAIN permits
  /\ permits[response.target].closed_at # NULL
  /\ permits[response.target].can_reopen
  /\ permits[response.target].closed_by # response.caller
  /\ RoleGrants(role_permissions, response.caller, "canReopenPermits")
  /\ ~ RoleGrants(role_permissions, response.caller, "canReopenAnyPermit")

\* the user who closed a permit has reopened it without reopen-any
C3_WitnessCloser ==
  /\ response.op = "reopen_permit"
  /\ response.status = "ok"
  /\ ~ RoleGrants(role_permissions, response.caller, "canReopenAnyPermit")
  /\ permits[response.target].closed_at = NULL

C4_WitnessDenied ==
  /\ response.op = "close_permit"
  /\ response.status = "forbidden"
  /\ response.caller \in DOMAIN users
  /\ users[response.caller].role = "observer"
  /\ response.target \in DOMAIN permits
  /\ permits[response.target].closed_at = NULL

\* the create, update and delete statements on permits, users and
\* role_permissions
WriteOps ==
  {"insert_user", "update_user_role", "update_user_region", "delete_user",
   "insert_permit", "update_permit", "delete_permit",
   "update_role_permissions"}

\* C5: every create, update or delete on permits, users or role_permissions
\* issued by an observer is turned down and changes no stored row.
C5_ObserverReadOnly ==
  [][(/\ response'.op \in WriteOps
      /\ response'.caller \in DOMAIN users
      /\ users[response'.caller].role = "observer")
     => /\ response'.status \in Denied
        /\ UNCHANGED <<users, permits, role_permissions>>]_vars

\* an observer's write to role_permissions has been turned down
C5_Witness ==
  /\ response.op = "update_role_permissions"
  /\ response.caller \in DOMAIN users
  /\ users[response.caller].role = "observer"
  /\ response.status = "no_rows"

\* C6: an INSERT into permits passes authorization iff the caller is an
\* admin, or a manager whose region array contains the new permit's region;
\* any other caller is turned down and no permit is added, and an authorized
\* insert of a registered region adds the permit.
C6_PermitCreate ==
  [][response'.op = "insert_permit"
     => LET c == response'.caller
            allowed ==
              /\ c \in DOMAIN users
              /\ \/ users[c].role = "admin"
                 \/ /\ users[c].role = "manager"
                    /\ response'.region \in users[c].region
        IN  /\ (response'.status # "rls_error") <=> allowed
            /\ response'.status = "rls_error" => permits' = permits
            /\ (allowed /\ response'.region \in Regions) =>
                 /\ response'.status = "ok"
                 /\ response'.target \notin DOMAIN permits
                 /\ response'.target \in DOMAIN permits'
                 /\ permits'[response'.target].region = response'.region]_vars

\* a manager has been turned down creating a permit in a registered region
\* outside its region array
C6_Witness ==
  /\ response.op = "insert_permit"
  /\ response.status = "rls_error"
  /\ response.caller \in DOMAIN users
  /\ users[response.caller].role = "manager"
  /\ response.region \in Regions
  /\ response.region \notin users[response.caller].region

\* C7: a DELETE on users removes the row only when the caller is an admin and
\* the row is another user's; an admin's DELETE of its own row is turned down
\* and the row is still there.
C7_UserDelete ==
  [][response'.op = "delete_user"
     => LET c == response'.caller
            id == response'.target
        IN  /\ response'.status = "ok" =>
                 /\ c \in DOMAIN users
                 /\ users[c].role = "admin"
                 /\ id # c
            /\ (c \in DOMAIN users /\ users[c].role = "admin" /\ id = c) =>
                 /\ response'.status \in Denied
                 /\ users' = users
                 /\ c \in DOMAIN users']_vars

\* an admin's DELETE of its own row has been turned down
C7_Witness ==
  /\ response.op = "delete_user"
  /\ response.status = "no_rows"
  /\ response.caller = response.target
  /\ response.caller \in DOMAIN users
  /\ users[response.caller].role = "admin"

\* C8: an INSERT into activity_logs succeeds only when the row's user_id is
\* the caller's id, whatever the caller's role; a row attributed to another
\* user raises the row-level security error and leaves the log as it was, so
\* every row that enters the log carries the id of the caller inserting it.
C8_ActivityLogCreate ==
  [][/\ response'.op = "insert_log"
        => /\ response'.status = "ok" => response'.user_id = response'.caller
           /\ response'.user_id # response'.caller =>
                /\ response'.status = "rls_error"
                /\ activity_logs' = activity_logs
     /\ activity_logs' # activity_logs
        => /\ response'.op = "insert_log"
           /\ Len(activity_logs') = Len(activity_logs) + 1
           /\ SubSeq(activity_logs', 1, Len(activity_logs)) = activity_logs
           /\ activity_logs'[Len(activity_logs')].user_id = response'.caller]_vars

\* an admin's INSERT of a row attributed to another existing user has been
\* turned down
C8_Witness ==
  /\ response.op = "insert_log"
  /\ response.status = "rls_error"
  /\ response.caller \in DOMAIN users
  /\ users[response.caller].role = "admin"
  /\ response.user_id \in DOMAIN users
  /\ response.user_id # response.caller

\* every stored region code is a row of regions
RegionsValid ==
  /\ \A u \in DOMAIN users : users[u].region \subseteq Regions
  /\ \A p \in DOMAIN permits : permits[p].region \in Regions

\* C9: every element of every user's region array and every permit's region
\* is a registered code; an INSERT or UPDATE of a user with an unregistered
\* code in its region array, or of a permit with an unregistered region,
\* stores nothing, and raises the check violation whenever the caller passes
\* the row-level policy of the statement.
C9_RegionValidity ==
  [][/\ RegionsValid /\ RegionsValid'
     /\ (/\ response'.op \in {"insert_user", "update_user_region"}
         /\ ~ (response'.regions \subseteq Regions))
        => /\ response'.status # "ok"
           /\ users' = users
           /\ (/\ response'.caller \in DOMAIN users
               /\ users[response'.caller].role = "admin"
               /\ response'.op = "update_user_region"
                    => response'.target \in DOMAIN users)
              => response'.status = "check_violation"
     /\ (/\ response'.op \in {"insert_permit", "update_permit"}
         /\ response'.region \notin Regions)
        => /\ response'.status # "ok"
           /\ permits' = permits
           /\ (/\ response'.caller \in DOMAIN users
               /\ users[response'.caller].role = "admin"
               /\ response'.op = "update_permit" =>
                    /\ response'.target \in DOMAIN permits
                    /\ permits[response'.target].closed_at = NULL
                    /\ response'.closed_at = NULL)
              => response'.status = "check_violation"]_vars

\* an admin's INSERT of a user with an unregistered region code has raised
\* the check violation
C9_Witness ==
  /\ response.op = "insert_user"
  /\ response.status = "check_violation"
  /\ BadRegion \in response.regions
  /\ RegionsValid

\* an admin's INSERT of a permit with an unregistered region has raised the
\* check violation
C9_WitnessPermit ==
  /\ response.op = "insert_permit"
  /\ response.status = "check_violation"
  /\ response.region = BadRegion

\* C10: every statement on permits is authorized against the caller's role
\* and region array as the users table holds them when the statement runs:
\* the outcome of an INSERT, an UPDATE of an open permit and a SELECT is the
\* one the current row gives, whatever the row held before.
C10_NoStaleAuthorization ==
  [][LET c == response'.caller
         isAdmin == c \in DOMAIN users /\ users[c].role = "admin"
         mayWrite(region) ==
           /\ c \in DOMAIN users
           /\ \/ users[c].role = "admin"
              \/ users[c].role = "manager" /\ region \in users[c].region
         maySee(region) ==
           /\ c \in DOMAIN users
           /\ \/ users[c].role \in {"admin", "manager"}
              \/ region \in users[c].region
     IN  /\ response'.op = "insert_permit" =>
              ((response'.status # "rls_error") <=> mayWrite(response'.region))
         /\ (/\ response'.op = "update_permit"
             /\ response'.target \in DOMAIN permits
             /\ permits[response'.target].closed_at = NULL)
            => ((response'.status # "no_rows") <=>
                   mayWrite(permits[response'.target].region))
         /\ response'.op = "select_permits" =>
              response'.rows = {p \in DOMAIN permits : maySee(permits[p].region)}
         /\ response'.op = "delete_permit" /\ response'.target \in DOMAIN permits
            => ((response'.status = "ok") <=> isAdmin)]_vars

\* a user who created a permit, and so was an admin or manager then, is now
\* an observer and has been turned down creating another
C10_Witness ==
  /\ response.op = "insert_permit"
  /\ response.status = "rls_error"
  /\ response.caller \in DOMAIN users
  /\ users[response.caller].role = "observer"
  /\ \E p \in DOMAIN permits : permits[p].created_by = response.caller

\* a manager who created a permit in a region has lost that region and has
\* been turned down updating the permit
C10_WitnessRegion ==
  /\ response.op = "update_permit"
  /\ response.status = "no_rows"
  /\ response.caller \in DOMAIN users
  /\ users[response.caller].role = "manager"
  /\ response.target \in DOMAIN permits
  /\ permits[response.target].created_by = response.caller
  /\ permits[response.target].closed_at = NULL
  /\ permits[response.target].region \notin users[response.caller].region

ReferencesValid ==
  /\ \A p \in DOMAIN permits :
        /\ permits[p].created_by \in DOMAIN users
        /\ permits[p].closed_by # NULL => permits[p].closed_by \in DOMAIN users
  /\ \A i \in 1..Len(activity_logs) : activity_logs[i].user_id \in DOMAIN users

\* C12: every permit's created_by, every non-NULL closed_by and every
\* activity log's user_id names an existing user; a DELETE of a user who
\* created a permit, closed a permit or has an activity log row is rejected
\* and the user remains, also when the caller is another admin.
C12_ReferentialIntegrity ==
  [][/\ ReferencesValid /\ ReferencesValid'
     /\ (/\ response'.op = "delete_user"
         /\ response'.target \in DOMAIN users
         /\ \/ \E p \in DOMAIN permits :
                  \/ permits[p].created_by = response'.target
                  \/ permits[p].closed_by = response'.target
            \/ \E i \in 1..Len(activity_logs) :
                  activity_logs[i].user_id = response'.target)
        => /\ response'.status # "ok"
           /\ users' = users
           /\ (/\ response'.caller \in DOMAIN users
               /\ users[response'.caller].role = "admin"
               /\ response'.caller # response'.target)
              => response'.status = "fk_violation"]_vars

\* another admin's DELETE of a user who closed a permit (and neither created
\* one nor has a log row) has been rejected by the foreign key
C12_Witness ==
  /\ response.op = "delete_user"
  /\ response.status = "fk_violation"
  /\ response.caller # response.target
  /\ response.target \in DOMAIN users
  /\ \E p \in DOMAIN permits : permits[p].closed_by = response.target
  /\ \A p \in DOMAIN permits : permits[p].created_by # response.target
  /\ \A i \in 1..Len(activity_logs) : activity_logs[i].user_id # response.target

\* some row of table t has role admin
HasAdmin(t) == \E u \in DOMAIN t : t[u].role = "admin"

\* C13: a DELETE on users never takes the table from having an admin to
\* having none.
C13_DeleteKeepsAdmin ==
  [][(response'.op = "delete_user" /\ HasAdmin(users)) => HasAdmin(users')]_vars

\* an admin has deleted the other admin and is the only admin left
C13_Witness ==
  /\ response.op = "delete_user"
  /\ response.status = "ok"
  /\ response.target \notin DOMAIN users
  /\ Cardinality({u \in DOMAIN users : users[u].role = "admin"}) = 1

\* an UPDATE of an admin's own role has left the table with users and no
\* admin: the guarantee does not extend to UPDATE
C13_WitnessUpdate ==
  /\ response.op = "update_user_role"
  /\ response.status = "ok"
  /\ response.caller = response.target
  /\ users # << >>
  /\ ~ HasAdmin(users)

\* ------------------------------------------------------------------ C14
\* C14: in the usePermits hook, after any sequence of addPermit and
\* deletePermit whose permit numbers all came from generatePermitNumber, the
\* number the next generatePermitNumber returns differs from the
\* permit_number of every permit in the local list, so inserting it does not
\* run into the UNIQUE constraint on permit_number.
C14_NextNumberFresh ==
  /\ \A i \in 1..Len(local_permits) :
        local_permits[i].permit_number # generatePermitNumber
  /\ PermitNumberUnique(generatePermitNumber)

\* the local list and the table agree, so a listed number is a stored number
LocalListInTable ==
  \A i \in 1..Len(local_permits) :
     /\ local_permits[i].id \in DOMAIN permit_number
     /\ permit_number[local_permits[i].id] = local_permits[i].permit_number
====
